---- MODULE Spec2Model ----
(***************************************************************************)
(* Authentication and session security of the Preview-DICOM backend:       *)
(* login / refresh / logout (routers/auth.py), the token service and the   *)
(* revocation ledger (core/security.py), the CSRF guard and the identity   *)
(* resolution (dependencies.py), and the admin user update                 *)
(* (routers/users.py).  Time is the server's UTC clock in whole units.     *)
(***************************************************************************)
EXTENDS Integers, FiniteSets, Sequences, TLC

VARIABLES
    now,        \* datetime.utcnow(), in whole time units
    tz,         \* the server's local-time offset from UTC, in time units
    nextJti,    \* the next uuid4 that create_token will draw
    users,      \* table users: id -> row
    issued,     \* every signed token handed out so far (held by clients)
    revoked,    \* table revoked_tokens (unique index on jti)
    sessions,   \* table user_sessions (primary key id = refresh JTI)
    audit,      \* table audit_logs, in insertion order
    last,       \* the request handled by the last step and its response
    loggedOut,  \* history: JTIs that were presented to a logout handler
    partial,    \* history: JTIs whose logout did exactly one of revoke / close
    accessOf,   \* history: <<refresh JTI, expiry>> of each access token issued for it
    groups,     \* table groups: the ids of the rows
    patients,   \* table patients (unique external_id)
    nextPid,    \* the next primary key of table patients
    gateway,    \* the upload requests the imaging gateway has received, in order
    inflight    \* the patient requests handled one database statement at a time

\* The tables of the data plane; the authentication handlers leave them alone.
dataVars == <<groups, patients, nextPid, gateway, inflight>>

vars == <<now, tz, nextJti, users, issued, revoked, sessions, audit, last,
          loggedOut, partial, accessOf, groups, patients, nextPid, gateway,
          inflight>>

(* ------------------------------ bounds --------------------------------- *)
MaxJti == 4         \* create_token calls explored
MaxTime == 3        \* clock ticks explored
MaxUpdates == 1     \* admin user updates explored (audit rows they add)
MaxAudit == 6       \* audit rows after which no further pruning is explored
MaxExtLen == 3      \* characters of an external id in the identifier check
MaxPid == 2         \* patient rows ever inserted
MaxRequests == 2    \* patient requests handled concurrently
MaxInstances == 2   \* instances of a gateway listing in the naming check

(* --------------------------- configuration ----------------------------- *)
\* settings.access_token_ttl / refresh_token_ttl, in the model's time unit
\* (both are deployment settings read from the environment).
access_token_ttl == 1
refresh_token_ttl == 2

(* ------------------------------ tokens --------------------------------- *)
NoToken == [jti |-> 0, sub |-> 0, exp |-> 0, iat |-> 0, type |-> "none"]
Garbage == [jti |-> 0, sub |-> 0, exp |-> 0, iat |-> 0, type |-> "garbage"]

\* create_token: the claims of the signed token; the caller passes the uuid4.
create_token(sub, expires_delta, token_type, jti) ==
    [jti |-> jti, sub |-> sub, exp |-> now + expires_delta, iat |-> now,
     type |-> token_type]

\* jwt.decode succeeds: the signature is ours and exp is not before the clock.
decode_ok(token) ==
    /\ token \in issued
    /\ ~(token.exp < now)

(* ---------------------------- credentials ------------------------------ *)
NoUser == [id |-> 0, email |-> "", hashed_password |-> [scheme |-> "", pw |-> ""],
           role |-> "", status |-> "", group_id |-> 0]

InitUsers ==
    (1 :> [id |-> 1, email |-> "admin@x.test",
           hashed_password |-> [scheme |-> "bcrypt", pw |-> "good"],
           role |-> "admin", status |-> "active", group_id |-> 1])
    @@
    (2 :> [id |-> 2, email |-> "legacy@x.test",
           hashed_password |-> [scheme |-> "plain", pw |-> "good"],
           role |-> "user", status |-> "active", group_id |-> 0])
    @@
    (3 :> [id |-> 3, email |-> "off@x.test",
           hashed_password |-> [scheme |-> "bcrypt", pw |-> "good"],
           role |-> "user", status |-> "disabled", group_id |-> 2])

Emails == {"admin@x.test", "legacy@x.test", "off@x.test", "nobody@x.test"}
Passwords == {"good", "bad"}
Statuses == {"active", "disabled"}
UpdateTargets == {1, 9}    \* 9 names no identity
DeleteTargets == {1, 3, 9}
\* (csrf_token cookie, X-CSRF-Token header) of a request; "" is absent.
GoodCsrf == <<"x", "x">>
BadCsrf == {<<"x", "y">>, <<"", "x">>, <<"x", "">>}

is_supported_password_hash(hashed_password) ==
    /\ hashed_password.scheme # ""
    /\ hashed_password.scheme = "bcrypt"

verify_password(plain_password, hashed_password) ==
    IF hashed_password.scheme = "bcrypt"
    THEN hashed_password.pw = plain_password
    ELSE FALSE      \* UnknownHashError

get_user(user_id) ==
    IF user_id \in DOMAIN users THEN users[user_id] ELSE NoUser

get_user_by_email(email) ==
    IF \E i \in DOMAIN users : users[i].email = email
    THEN users[CHOOSE i \in DOMAIN users : users[i].email = email]
    ELSE NoUser

\* The first of the four checks that fails, or "ok".
authenticate_case(email, password) ==
    LET user == get_user_by_email(email) IN
    IF user = NoUser THEN "no_identity"
    ELSE IF ~is_supported_password_hash(user.hashed_password) THEN "unsupported_hash"
    ELSE IF ~verify_password(password, user.hashed_password) THEN "mismatch"
    ELSE IF user.status # "active" THEN "inactive"
    ELSE "ok"

authenticate_user_nostatus(email, password) ==
    LET user == get_user_by_email(email) IN
    IF user = NoUser THEN NoUser
    ELSE IF ~is_supported_password_hash(user.hashed_password) THEN NoUser
    ELSE IF ~verify_password(password, user.hashed_password) THEN NoUser
    ELSE user

authenticate_user(email, password) ==
    LET user == get_user_by_email(email) IN
    IF user = NoUser THEN NoUser
    ELSE IF ~is_supported_password_hash(user.hashed_password) THEN NoUser
    ELSE IF ~verify_password(password, user.hashed_password) THEN NoUser
    ELSE IF user.status # "active" THEN NoUser
    ELSE user

(* ----------------------------- responses ------------------------------- *)
Ok == [kind |-> "OK", status |-> 200, code |-> "", detail |-> ""]
InvalidCredentials ==
    [kind |-> "AuthenticationError", status |-> 401, code |-> "INVALID_CREDENTIALS",
     detail |-> "Email ou mot de passe incorrect"]
MissingToken ==
    [kind |-> "AuthenticationError", status |-> 401, code |-> "MISSING_TOKEN",
     detail |-> "Token manquant"]
InvalidType ==
    [kind |-> "AuthenticationError", status |-> 401, code |-> "INVALID_TYPE",
     detail |-> "Type invalide"]
Revoked ==
    [kind |-> "AuthenticationError", status |-> 401, code |-> "REVOKED",
     detail |-> "Token revoque"]
Inactive ==
    [kind |-> "AuthenticationError", status |-> 401, code |-> "INACTIVE",
     detail |-> "Utilisateur inactif"]
\* decode_token's plain HTTPException: it carries no error code.
TokenInvalid ==
    [kind |-> "HTTPException", status |-> 401, code |-> "",
     detail |-> "Token invalide ou expire"]
UserUnknown ==
    [kind |-> "HTTPException", status |-> 401, code |-> "",
     detail |-> "Utilisateur introuvable"]
CsrfForbidden ==
    [kind |-> "HTTPException", status |-> 403, code |-> "",
     detail |-> "Requete interdite: CSRF token invalide"]
AdminOnly ==
    [kind |-> "AuthorizationError", status |-> 403, code |-> "AUTHZ_ERROR",
     detail |-> "Action reservee aux administrateurs"]
UserNotFound ==
    [kind |-> "NotFoundError", status |-> 404, code |-> "USER_NOT_FOUND",
     detail |-> "Utilisateur non trouve"]

\* An exception no handler catches: the framework's 500.
InternalError(detail) ==
    [kind |-> "Exception", status |-> 500, code |-> "", detail |-> detail]

CannotDeleteSelf ==
    [kind |-> "ValidationError", status |-> 400, code |-> "CANNOT_DELETE_SELF",
     detail |-> "Impossible de supprimer votre propre compte"]

\* The record kept of a step: the operation, the CSRF cookie and header it
\* carried, its response, the token it acted on once its checks had passed
\* (NoToken for a request that was refused or did nothing), the access token
\* it returned, the cookies it cleared and the database error it swallowed.
Req(op, csrfCookie, csrfHeader) ==
    [op |-> op, csrfCookie |-> csrfCookie, csrfHeader |-> csrfHeader,
     resp |-> Ok, tok |-> NoToken, access |-> NoToken, cleared |-> {},
     dbError |-> ""]

(* ------------------------------- ledger -------------------------------- *)
is_token_revoked_never(jti) == FALSE

is_token_revoked(jti) == \E r \in revoked : r.jti = jti

\* datetime.fromtimestamp(exp): the naive local time of the server, which is
\* later compared with utcnow().
from_timestamp(exp) == exp + tz

\* A row of revoked_tokens (revoked_at is written and never read: left out).
RevokedRow(jti, token_type, user_id, expires_at) ==
    [jti |-> jti, token_type |-> token_type, user_id |-> user_id,
     expires_at |-> expires_at]

\* revoke_token: db.add + db.commit.  The unique index ix_revoked_tokens_jti
\* makes the commit of a second row for the same jti raise IntegrityError,
\* as does the foreign key on user_id for a user that no longer exists; the
\* failed transaction leaves the table as it was.
revoke_token(jti, token_type, user_id, expires_at, commitFails) ==
    IF commitFails THEN [table |-> revoked, error |-> "OperationalError"]
    ELSE IF \E r \in revoked : r.jti = jti
    THEN [table |-> revoked, error |-> "IntegrityError"]
    ELSE IF user_id \notin DOMAIN users
    THEN [table |-> revoked, error |-> "IntegrityError"]
    ELSE [table |-> revoked \cup {RevokedRow(jti, token_type, user_id, expires_at)},
          error |-> ""]

(* ------------------------------ sessions ------------------------------- *)
SessionRow(id, user_id) ==
    [id |-> id, user_id |-> user_id, created_at |-> now, last_activity |-> now,
     is_active |-> TRUE]

has_session(jti) == \E s \in sessions : s.id = jti

\* login: db.add(UserSession(id=refresh_jti, ...)); db.commit()
open_session_per_user(jti, user_id) ==
    IF \E s \in sessions : s.user_id = user_id
    THEN {IF s.user_id = user_id
          THEN [s EXCEPT !.last_activity = now, !.is_active = TRUE] ELSE s
            : s \in sessions}
    ELSE sessions \cup {SessionRow(jti, user_id)}

open_session_access_jti(jti, user_id) ==
    sessions \cup {SessionRow(nextJti, user_id)}

open_session(jti, user_id) == sessions \cup {SessionRow(jti, user_id)}

\* refresh: session.last_activity = utcnow()
touch_session_in_upsert(table, jti) ==
    IF \E s \in table : s.id = jti
    THEN {IF s.id = jti THEN [s EXCEPT !.last_activity = now] ELSE s : s \in table}
    ELSE table \cup {SessionRow(jti, 0)}

\* The same on a given user_sessions table: `if session:` skips a missing row.
touch_session_in(table, jti) ==
    {IF s.id = jti THEN [s EXCEPT !.last_activity = now] ELSE s : s \in table}

touch_session(jti) == touch_session_in(sessions, jti)

\* logout: session.is_active = False
close_session_of_user(jti) ==
    LET owner == {s.user_id : s \in {x \in sessions : x.id = jti}} IN
    {IF s.user_id \in owner THEN [s EXCEPT !.is_active = FALSE] ELSE s
        : s \in sessions}

close_session(jti) ==
    {IF s.id = jti THEN [s EXCEPT !.is_active = FALSE] ELSE s : s \in sessions}

(* ------------------------------- audit --------------------------------- *)
\* A row of audit_logs (timestamp is written and never read: left out).
AuditRow(user_id, action, resource_type, resource_id) ==
    [user_id |-> user_id, action |-> action, resource_type |-> resource_type,
     resource_id |-> resource_id]

log_action_overwrite(user_id, action, resource_type, resource_id) ==
    <<AuditRow(user_id, action, resource_type, resource_id)>>

log_action(user_id, action, resource_type, resource_id) ==
    Append(audit, AuditRow(user_id, action, resource_type, resource_id))

(* ---------------------------- CSRF guard ------------------------------- *)
\* enforce_csrf: TRUE when the request is let through.  The raise of the
\* mismatch branch is commented out in the source: the branch is `pass`.
enforce_csrf(csrf_cookie, csrf_header) ==
    IF csrf_cookie = "" \/ csrf_header = "" \/ csrf_cookie # csrf_header
    THEN TRUE
    ELSE TRUE

(* ------------------------------- Init ---------------------------------- *)
\* Groups 1 and 2 have members, group 3 has none (group_id 0 is NULL).
InitGroups == {1, 2, 3}

InitData ==
    /\ groups = InitGroups
    /\ patients = {}
    /\ nextPid = 1
    /\ gateway = <<>>
    /\ inflight = <<>>

ServerUtcOffsets == {0}

Init ==
    /\ now = 0
    /\ tz \in ServerUtcOffsets
    /\ nextJti = 1
    /\ users = InitUsers
    /\ issued = {}
    /\ revoked = {}
    /\ sessions = {}
    /\ audit = <<>>
    /\ last = Req("init", "", "")
    /\ loggedOut = {}
    /\ partial = {}
    /\ accessOf = {}
    /\ InitData

(* --------------------------- identity gate ----------------------------- *)
\* get_current_user: the error it raises for a bearer token, or Ok.
get_current_user_check(token) ==
    IF ~decode_ok(token) THEN TokenInvalid
    ELSE IF get_user(token.sub) = NoUser THEN UserUnknown
    ELSE Ok

\* check_admin, after get_current_user.
check_admin(token) ==
    IF get_current_user_check(token) # Ok THEN get_current_user_check(token)
    ELSE IF get_user(token.sub).role # "admin" THEN AdminOnly
    ELSE Ok

(* --------------------------- capability gate --------------------------- *)
Capabilities == {"can_edit_patients", "can_export_data", "can_manage_users",
                 "can_view_images"}

\* The flags that are true in each group: the seeded administrators' group
\* has all four, a group created with the column defaults has
\* can_view_images only.
group_flags ==
    (1 :> Capabilities) @@ (2 :> {"can_view_images"})
    @@ (3 :> {"can_export_data", "can_view_images"})

PermissionDenied ==
    [kind |-> "HTTPException", status |-> 403, code |-> "",
     detail |-> "Permission refusee"]

\* user.group: the group row the user's group_id names, 0 for none.
user_group(user) == IF user.group_id \in groups THEN user.group_id ELSE 0

\* require_permission(permission_field), after get_current_user: the error
\* raised for the bearer token, or Ok.
require_permission(permission_field, token) ==
    IF get_current_user_check(token) # Ok THEN get_current_user_check(token)
    ELSE IF user_group(get_user(token.sub)) = 0 THEN PermissionDenied
    ELSE IF permission_field \notin group_flags[user_group(get_user(token.sub))]
    THEN PermissionDenied
    ELSE Ok

\* A request to a route that depends on require_permission(permission_field).
RequirePermission(bearer, permission_field) ==
    last' = [op |-> "require_permission", csrfCookie |-> "", csrfHeader |-> "",
             resp |-> require_permission(permission_field, bearer), tok |-> bearer,
             access |-> NoToken, cleared |-> {}, dbError |-> "",
             flag |-> permission_field]

(* ------------------------------- login --------------------------------- *)
\* The error login raises for the credentials, or Ok.
login_check(email, password) ==
    IF authenticate_user(email, password) = NoUser THEN InvalidCredentials ELSE Ok

\* login.  fault = "audit" is a database that refuses the commit of
\* AuditService.log_action: the session row is already committed, the
\* exception leaves the handler, and the tokens and cookies are never sent.
Login(email, password, fault) ==
    LET user == authenticate_user(email, password)
        req == Req("login", "", "")
    IN  IF login_check(email, password) # Ok
        THEN /\ last' = [req EXCEPT !.resp = login_check(email, password)]
             /\ UNCHANGED <<now, tz, nextJti, users, issued, revoked, sessions, audit,
                            loggedOut, partial, accessOf>>
        ELSE /\ nextJti + 1 <= MaxJti
             /\ LET access == create_token(user.id, access_token_ttl, "access", nextJti)
                    refresh == create_token(user.id, refresh_token_ttl, "refresh",
                                            nextJti + 1)
                IN  IF fault = "audit"
                    THEN /\ sessions' = open_session(refresh.jti, user.id)
                         /\ last' = [req EXCEPT
                                         !.resp = InternalError("OperationalError"),
                                         !.dbError = "OperationalError"]
                         /\ UNCHANGED <<issued, audit, accessOf>>
                    ELSE /\ issued' = issued \cup {access, refresh}
                         /\ sessions' = open_session(refresh.jti, user.id)
                         /\ audit' = log_action(user.id, "LOGIN", "user", user.id)
                         /\ accessOf' = accessOf \cup {<<refresh.jti, access.exp>>}
                         /\ last' = [req EXCEPT !.tok = refresh, !.access = access]
             /\ nextJti' = nextJti + 2
             /\ UNCHANGED <<now, tz, users, revoked, loggedOut, partial>>

(* ------------------------------ refresh -------------------------------- *)
\* The checks of refresh_token, in the order of the code: the error raised
\* for the refresh_token cookie, or Ok.
refresh_check_anyowner(cookie) ==
    IF cookie = NoToken THEN MissingToken
    ELSE IF ~decode_ok(cookie) THEN TokenInvalid
    ELSE IF cookie.type # "refresh" THEN InvalidType
    ELSE IF cookie.jti = 0 \/ is_token_revoked(cookie.jti) THEN Revoked
    ELSE IF get_user(cookie.sub) = NoUser THEN Inactive
    ELSE Ok

refresh_check_anykind(cookie) ==
    IF cookie = NoToken THEN MissingToken
    ELSE IF ~decode_ok(cookie) THEN TokenInvalid
    ELSE IF cookie.jti = 0 \/ is_token_revoked(cookie.jti) THEN Revoked
    ELSE IF get_user(cookie.sub) = NoUser \/ get_user(cookie.sub).status # "active"
         THEN Inactive
    ELSE Ok

refresh_check(cookie) ==
    IF cookie = NoToken THEN MissingToken
    ELSE IF ~decode_ok(cookie) THEN TokenInvalid
    ELSE IF cookie.type # "refresh" THEN InvalidType
    ELSE IF cookie.jti = 0 \/ is_token_revoked(cookie.jti) THEN Revoked
    ELSE IF get_user(cookie.sub) = NoUser \/ get_user(cookie.sub).status # "active"
         THEN Inactive
    ELSE Ok

\* The access token a successful refresh returns.
refresh_access_short(cookie) ==
    create_token(get_user(cookie.sub).id, 0, "access", nextJti)

refresh_access(cookie) ==
    create_token(get_user(cookie.sub).id, access_token_ttl, "access", nextJti)

Refresh(cookie, csrfCookie, csrfHeader) ==
    LET req == Req("refresh", csrfCookie, csrfHeader)
    IN  IF refresh_check(cookie) # Ok
        THEN /\ last' = [req EXCEPT !.resp = refresh_check(cookie)]
             /\ UNCHANGED <<now, tz, nextJti, users, issued, revoked, sessions, audit,
                            loggedOut, partial, accessOf>>
        ELSE /\ nextJti <= MaxJti
             /\ sessions' = touch_session(cookie.jti)
             /\ issued' = issued \cup {refresh_access(cookie)}
             /\ accessOf' = accessOf \cup {<<cookie.jti, refresh_access(cookie).exp>>}
             /\ last' = [req EXCEPT !.tok = cookie, !.access = refresh_access(cookie)]
             /\ nextJti' = nextJti + 1
             /\ UNCHANGED <<now, tz, users, revoked, audit, loggedOut, partial>>

(* ------------------------------- logout -------------------------------- *)
\* logout reaches revoke_token: the cookie is there, decodes, and carries
\* jti, sub and exp.
logout_acts(cookie) ==
    /\ cookie # NoToken
    /\ decode_ok(cookie)
    /\ cookie.jti # 0 /\ cookie.sub # 0 /\ cookie.exp # 0

NoLogoutDb ==
    [revoked |-> revoked, sessions |-> sessions, audit |-> audit, dbError |-> "",
     revokeDone |-> FALSE, closeDone |-> FALSE, closeTried |-> FALSE]

\* The database work of logout's try block.  fault names the commit that the
\* database refuses: "revoke", "close", "audit", or "" for none.  revokeDone,
\* closeDone: that write was committed; closeTried: the close was attempted.
logout_db_close_first(cookie, fault) ==
    LET r == revoke_token(cookie.jti, "refresh", cookie.sub, from_timestamp(cookie.exp),
                          fault = "revoke")
    IN  IF has_session(cookie.jti) /\ fault = "close"
        THEN [NoLogoutDb EXCEPT !.dbError = "OperationalError", !.closeTried = TRUE]
        ELSE IF r.error # ""
        THEN [NoLogoutDb EXCEPT !.sessions = close_session(cookie.jti),
                                !.dbError = r.error,
                                !.closeDone = has_session(cookie.jti),
                                !.closeTried = has_session(cookie.jti)]
        ELSE [revoked |-> r.table,
              sessions |-> close_session(cookie.jti),
              audit |-> IF fault = "audit" THEN audit
                        ELSE log_action(cookie.sub, "LOGOUT", "user", cookie.sub),
              dbError |-> IF fault = "audit" THEN "OperationalError" ELSE "",
              revokeDone |-> TRUE, closeDone |-> has_session(cookie.jti),
              closeTried |-> has_session(cookie.jti)]

logout_db(cookie, fault) ==
    LET r == revoke_token(cookie.jti, "refresh", cookie.sub, from_timestamp(cookie.exp),
                          fault = "revoke")
    IN  IF r.error # ""
        THEN [NoLogoutDb EXCEPT !.dbError = r.error]
        ELSE IF has_session(cookie.jti) /\ fault = "close"
        THEN [NoLogoutDb EXCEPT !.revoked = r.table, !.dbError = "OperationalError",
                                !.revokeDone = TRUE, !.closeTried = TRUE]
        ELSE [revoked |-> r.table,
              sessions |-> close_session(cookie.jti),
              audit |-> IF fault = "audit" THEN audit
                        ELSE log_action(cookie.sub, "LOGOUT", "user", cookie.sub),
              dbError |-> IF fault = "audit" THEN "OperationalError" ELSE "",
              revokeDone |-> TRUE, closeDone |-> has_session(cookie.jti),
              closeTried |-> has_session(cookie.jti)]

\* What logout answers: `except Exception: pass`, then the success message.
logout_response_nocatch(cookie, dbError) ==
    IF cookie # NoToken /\ ~decode_ok(cookie) THEN TokenInvalid
    ELSE IF dbError # ""
    THEN [kind |-> "Exception", status |-> 500, code |-> "", detail |-> dbError]
    ELSE Ok

logout_response(cookie, dbError) == Ok

Logout(cookie, csrfCookie, csrfHeader, fault) ==
    LET req == Req("logout", csrfCookie, csrfHeader)
        eff == IF logout_acts(cookie) THEN logout_db(cookie, fault) ELSE NoLogoutDb
    IN  IF ~enforce_csrf(csrfCookie, csrfHeader)
        THEN /\ last' = [req EXCEPT !.resp = CsrfForbidden]
             /\ UNCHANGED <<now, tz, nextJti, users, issued, revoked, sessions, audit,
                            loggedOut, partial, accessOf>>
        ELSE /\ revoked' = eff.revoked
             /\ sessions' = eff.sessions
             /\ audit' = eff.audit
             /\ last' = [req EXCEPT !.resp = logout_response(cookie, eff.dbError),
                                    !.tok = IF logout_acts(cookie) THEN cookie
                                            ELSE NoToken,
                                    !.cleared =
                                        IF logout_response(cookie, eff.dbError) = Ok
                                        THEN {"refresh_token", "csrf_token"} ELSE {},
                                    !.dbError = eff.dbError]
             /\ loggedOut' = IF cookie \in issued THEN loggedOut \cup {cookie.jti}
                             ELSE loggedOut
             /\ partial' = IF eff.closeTried /\ eff.revokeDone # eff.closeDone
                           THEN partial \cup {cookie.jti} ELSE partial
             /\ UNCHANGED <<now, tz, nextJti, users, issued, accessOf>>

(* ---------------------------- admin update ----------------------------- *)
NumUpdates == Cardinality({i \in DOMAIN audit : audit[i].action = "UPDATE"})

\* update_user (PUT /users/{user_id}) with a payload that sets status.
UpdateUser(bearer, user_id, status) ==
    LET req == Req("update_user", "", "")
    IN  IF check_admin(bearer) # Ok
        THEN /\ last' = [req EXCEPT !.resp = check_admin(bearer)]
             /\ UNCHANGED <<now, tz, nextJti, users, issued, revoked, sessions, audit,
                            loggedOut, partial, accessOf>>
        ELSE IF user_id \notin DOMAIN users
        THEN /\ last' = [req EXCEPT !.resp = UserNotFound]
             /\ UNCHANGED <<now, tz, nextJti, users, issued, revoked, sessions, audit,
                            loggedOut, partial, accessOf>>
        ELSE /\ NumUpdates < MaxUpdates
             /\ users' = [users EXCEPT ![user_id].status = status]
             /\ audit' = log_action(bearer.sub, "UPDATE", "user", user_id)
             /\ last' = req
             /\ UNCHANGED <<now, tz, nextJti, issued, revoked, sessions, loggedOut,
                            partial, accessOf>>

(* ---------------------------- admin delete ----------------------------- *)
\* UserService.delete_user: the users table without the row, and whether a
\* row was there.
delete_user(user_id) ==
    [table |-> [u \in DOMAIN users \ {user_id} |-> users[u]],
     found |-> user_id \in DOMAIN users]

\* The record kept of an admitted delete_user request: Req and the user it
\* names.
UserReq(op, user_id) ==
    [op |-> op, csrfCookie |-> "", csrfHeader |-> "", resp |-> Ok, tok |-> NoToken,
     access |-> NoToken, cleared |-> {}, dbError |-> "", uid |-> user_id]

without_user_keep(rows, user_id) == rows

\* db.query(T).filter(T.user_id == user_id).delete() on a table.
without_user(rows, user_id) == {r \in rows : r.user_id # user_id}

\* delete_user (DELETE /users/{user_id}): the audit, session and revocation
\* rows of the user are deleted and committed before the user row is looked
\* up.
DeleteUser(bearer, user_id) ==
    LET req == Req("delete_user", "", "")
        adm == UserReq("delete_user", user_id)
        audit1 == SelectSeq(audit, LAMBDA a : a.user_id # user_id)
    IN  IF check_admin(bearer) # Ok
        THEN /\ last' = [req EXCEPT !.resp = check_admin(bearer)]
             /\ UNCHANGED <<now, tz, nextJti, users, issued, revoked, sessions, audit,
                            loggedOut, partial, accessOf>>
        ELSE IF user_id = get_user(bearer.sub).id
        THEN /\ last' = [adm EXCEPT !.resp = CannotDeleteSelf]
             /\ UNCHANGED <<now, tz, nextJti, users, issued, revoked, sessions, audit,
                            loggedOut, partial, accessOf>>
        ELSE /\ sessions' = without_user(sessions, user_id)
             /\ revoked' = without_user(revoked, user_id)
             /\ users' = delete_user(user_id).table
             /\ audit' = IF delete_user(user_id).found
                         THEN Append(audit1, AuditRow(bearer.sub, "DELETE", "user", user_id))
                         ELSE audit1
             /\ last' = IF delete_user(user_id).found THEN adm
                        ELSE [adm EXCEPT !.resp = UserNotFound]
             /\ UNCHANGED <<now, tz, nextJti, issued, loggedOut, partial, accessOf>>

(* ------------------------------- groups -------------------------------- *)
GroupTargets == {1, 2, 3, 9}     \* 9 names no group

GroupNotFound ==
    [kind |-> "NotFoundError", status |-> 404, code |-> "GROUP_NOT_FOUND",
     detail |-> "Groupe non trouve"]
GroupHasUsers ==
    [kind |-> "ValidationError", status |-> 400, code |-> "GROUP_HAS_USERS",
     detail |-> "Impossible de supprimer le groupe"]

\* The record kept of a group request: Req and the group it names.
GroupReq(op, group_id) ==
    [op |-> op, csrfCookie |-> "", csrfHeader |-> "", resp |-> Ok, tok |-> NoToken,
     access |-> NoToken, cleared |-> {}, dbError |-> "", gid |-> group_id]

\* group.users: the users whose group_id is the group's id.
group_users(group_id) == {u \in DOMAIN users : users[u].group_id = group_id}

delete_group_check_unguarded(group_id) ==
    IF group_id \notin groups THEN GroupNotFound ELSE Ok

\* The error delete_group raises for the group, or Ok.
delete_group_check(group_id) ==
    IF group_id \notin groups THEN GroupNotFound
    ELSE IF group_users(group_id) # {} THEN GroupHasUsers
    ELSE Ok

\* delete_group (DELETE /groups/{group_id}).
DeleteGroup(bearer, group_id) ==
    LET req == GroupReq("delete_group", group_id)
    IN  IF check_admin(bearer) # Ok
        THEN /\ last' = [req EXCEPT !.resp = check_admin(bearer)]
             /\ UNCHANGED <<groups, audit>>
        ELSE IF delete_group_check(group_id) # Ok
        THEN /\ last' = [req EXCEPT !.resp = delete_group_check(group_id),
                                    !.tok = bearer]
             /\ UNCHANGED <<groups, audit>>
        ELSE /\ groups' = groups \ {group_id}
             /\ audit' = log_action(bearer.sub, "DELETE", "group", group_id)
             /\ last' = [req EXCEPT !.tok = bearer]

(* ------------------------------ patients ------------------------------- *)
\* A row of table patients; "" is NULL.  The descriptive columns (names,
\* condition, dates) are copied around and never tested: left out.
NoPatient == [id |-> 0, external_id |-> "", orthanc_patient_id |-> "",
              dicom_study_uid |-> ""]

ExternalIds == {"A", "B"}
\* orthanc_patient_id / dicom_study_uid a PatientCreate payload may carry.
PayloadLinks == {"", "o1"}
PatientIds == {1, 2, 9}     \* 9 names no patient
\* What an uploaded file is: a DICOM file whose tags can be rewritten, one
\* whose rewrite fails, and the four kinds the validator refuses.
FileKinds == {"valid", "rewrite_fails", "empty", "too_large", "not_dicom",
              "no_patient_id"}
FileLists == {<<k>> : k \in FileKinds} \cup {<<"valid", k>> : k \in FileKinds}
BulkRequests == {<<1>>, <<9>>, <<1, 1>>, <<1, 2>>, <<1, 9>>, <<2, 9, 1>>}

Unauthorized == {TokenInvalid, UserUnknown}
InvalidJson ==
    [kind |-> "ValidationError", status |-> 400, code |-> "INVALID_JSON",
     detail |-> "Donnees patient invalides"]
DuplicateId ==
    [kind |-> "ValidationError", status |-> 400, code |-> "DUPLICATE_ID",
     detail |-> "Patient avec external_id existe deja"]
PatientNotFound ==
    [kind |-> "NotFoundError", status |-> 404, code |-> "PATIENT_NOT_FOUND",
     detail |-> "Patient non trouve"]
PatientsNotFound ==
    [kind |-> "NotFoundError", status |-> 404, code |-> "PATIENTS_NOT_FOUND",
     detail |-> "Aucun patient trouve"]
\* import_patient's own HTTPException(500, "Erreur lors de l'import: ...").
ImportError(detail) ==
    [kind |-> "HTTPException", status |-> 500, code |-> "",
     detail |-> <<"Erreur lors de l'import: ", detail>>]

\* The record kept of a data-plane step: Req and the request's payload.
DataReq(op) ==
    [op |-> op, csrfCookie |-> "", csrfHeader |-> "", resp |-> Ok, tok |-> NoToken,
     access |-> NoToken, cleared |-> {}, dbError |-> "",
     ext |-> "", files |-> <<>>, ids |-> <<>>, existed |-> FALSE, pid |-> 0,
     archive |-> <<>>]

get_patient(patient_id) ==
    IF \E p \in patients : p.id = patient_id
    THEN CHOOSE p \in patients : p.id = patient_id
    ELSE NoPatient

get_patient_by_external_id(external_id) ==
    IF \E p \in patients : p.external_id = external_id
    THEN CHOOSE p \in patients : p.external_id = external_id
    ELSE NoPatient

create_patient_unconstrained(external_id, link) ==
    LET row == [id |-> nextPid, external_id |-> external_id,
                orthanc_patient_id |-> link, dicom_study_uid |-> link]
    IN  [table |-> patients \cup {row}, row |-> row, error |-> ""]

\* PatientService.create_patient: insert and commit; the unique constraint on
\* external_id refuses a second row with the same value.
create_patient(external_id, link) ==
    LET row == [id |-> nextPid, external_id |-> external_id,
                orthanc_patient_id |-> link, dicom_study_uid |-> link]
    IN  IF \E p \in patients : p.external_id = external_id
        THEN [table |-> patients, row |-> NoPatient, error |-> "IntegrityError"]
        ELSE [table |-> patients \cup {row}, row |-> row, error |-> ""]

\* PatientService.delete_patient on a table.
delete_patient_noop(table, patient_id) == table

delete_patient(table, patient_id) == {p \in table : p.id # patient_id}

\* DicomValidator.validate_dicom_file: the detail of the HTTPException it
\* raises, or "" when the file passes.  The missing-PatientID exception is
\* raised inside the try block and re-wrapped by its `except Exception`.
validate_dicom_file(kind) ==
    CASE kind = "too_large" -> "File too large"
      [] kind = "empty" -> "Empty file uploaded"
      [] kind = "not_dicom" -> "Invalid DICOM file"
      [] kind = "no_patient_id" -> "Error validating DICOM file"
      [] OTHER -> ""

\* str(n) of a non-negative integer, as a sequence of characters.
RECURSIVE str_int(_)
str_int(n) ==
    LET digit == <<"0", "1", "2", "3", "4", "5", "6", "7", "8", "9">>[(n % 10) + 1]
    IN  IF n < 10 THEN <<digit>> ELSE Append(str_int(n \div 10), digit)

unique_patient_id_nosep(id, external_id) ==
    <<"A", "P", "P", "_">> \o str_int(id) \o external_id

\* f"APP_{db_patient.id}_{db_patient.external_id}"; external_id is a sequence
\* of characters.
unique_patient_id(id, external_id) ==
    <<"A", "P", "P", "_">> \o str_int(id) \o <<"_">> \o external_id

\* The identifier computed for two patient records.
UniquePatientIds(a, b) ==
    /\ last' = [op |-> "unique_patient_id", a |-> a, b |-> b,
                ida |-> unique_patient_id(a.id, a.ext),
                idb |-> unique_patient_id(b.id, b.ext)]
    /\ UNCHANGED <<audit, patients, nextPid, gateway>>

\* OrthancClient's methods are coroutine functions and the patients router
\* calls them without await: the call sends nothing and returns a coroutine
\* object.
Coroutine == [kind |-> "coroutine"]

upload_stream(content) == Coroutine

list_instances(orthanc_patient_id) == Coroutine

\* The for loop of import_patient: the files before the first one the
\* validator refuses are handed to upload_stream.
FirstInvalid(files) ==
    IF \E i \in DOMAIN files : validate_dicom_file(files[i]) # ""
    THEN CHOOSE i \in DOMAIN files :
             /\ validate_dicom_file(files[i]) # ""
             /\ \A j \in 1..(i - 1) : validate_dicom_file(files[j]) = ""
    ELSE 0

uploaded_files(files) ==
    LET n == IF FirstInvalid(files) = 0 THEN Len(files) ELSE FirstInvalid(files) - 1
    IN  [i \in 1..n |-> upload_stream(files[i])]

upload_calls_both(files) ==
    [i \in DOMAIN uploaded_files(files) |->
         [file |-> i,
          bytes |-> IF files[i] = "rewrite_fails" THEN <<"original">>
                    ELSE <<"rewritten", "original">>]]

\* The calls of upload_stream the loop makes, one per file it reaches, with
\* the bytes each is given: the rewritten bytes, or in the except branch of a
\* failed rewrite the original ones.  Creating the coroutine cannot raise, so
\* the except branch is entered by a failed rewrite only.
upload_calls(files) ==
    [i \in DOMAIN uploaded_files(files) |->
         [file |-> i,
          bytes |-> IF files[i] = "rewrite_fails" THEN <<"original">>
                    ELSE <<"rewritten">>]]

\* The requests that reach the gateway: a coroutine that is never awaited
\* sends nothing.
gateway_requests(files) ==
    SelectSeq(upload_calls(files),
              LAMBDA c : uploaded_files(files)[c.file] # Coroutine)

\* The exception that ends import_patient's try block, "" for none:
\* the validator's, or the AttributeError of first_result.get on a coroutine.
import_exception(files) ==
    IF FirstInvalid(files) # 0 THEN validate_dicom_file(files[FirstInvalid(files)])
    ELSE IF Len(uploaded_files(files)) > 0 /\ uploaded_files(files)[1] = Coroutine
    THEN "'coroutine' object has no attribute 'get'"
    ELSE ""

\* import_patient (POST /patients/import).  payload is "ok" or "bad_json".
ImportPatient(bearer, payload, external_id, link, files) ==
    LET req == [DataReq("import") EXCEPT !.ext = external_id, !.files = files,
                    !.existed = get_patient_by_external_id(external_id) # NoPatient]
        c == create_patient(external_id, link)
    IN  IF get_current_user_check(bearer) # Ok
        THEN /\ last' = [DataReq("import") EXCEPT !.resp = get_current_user_check(bearer)]
             /\ UNCHANGED <<audit, patients, nextPid, gateway>>
        ELSE IF payload = "bad_json"
        THEN /\ last' = [DataReq("import") EXCEPT !.resp = InvalidJson]
             /\ UNCHANGED <<audit, patients, nextPid, gateway>>
        ELSE IF c.error # ""
        THEN /\ last' = [req EXCEPT !.resp = InternalError(c.error),
                                    !.dbError = c.error]
             /\ UNCHANGED <<audit, patients, nextPid, gateway>>
        ELSE /\ nextPid <= MaxPid
             /\ nextPid' = nextPid + 1
             /\ IF import_exception(files) # ""
                THEN /\ patients' = delete_patient(c.table, c.row.id)
                     /\ audit' = audit
                     /\ last' = [req EXCEPT !.resp = ImportError(import_exception(files)),
                                            !.pid = c.row.id]
                ELSE /\ patients' = c.table
                     /\ audit' = log_action(bearer.sub, "IMPORT", "patient", c.row.id)
                     /\ last' = [req EXCEPT !.pid = c.row.id, !.tok = bearer]
             /\ gateway' = gateway \o gateway_requests(files)

create_patient_check_none(external_id) == Ok

\* The error the create_patient handler raises for the payload, or Ok.
create_patient_check(external_id) ==
    IF get_patient_by_external_id(external_id) # NoPatient THEN DuplicateId ELSE Ok

\* create_patient (POST /patients).  fault = "audit" is a database that
\* refuses the commit of AuditService.log_action, after the patient row is
\* committed.
CreatePatient(bearer, external_id, link, fault) ==
    LET req == [DataReq("create_patient") EXCEPT !.ext = external_id,
                    !.existed = get_patient_by_external_id(external_id) # NoPatient]
        c == create_patient(external_id, link)
    IN  IF get_current_user_check(bearer) # Ok
        THEN /\ last' = [DataReq("create_patient") EXCEPT
                             !.resp = get_current_user_check(bearer)]
             /\ UNCHANGED <<audit, patients, nextPid, gateway>>
        ELSE IF create_patient_check(external_id) # Ok
        THEN /\ last' = [req EXCEPT !.resp = create_patient_check(external_id)]
             /\ UNCHANGED <<audit, patients, nextPid, gateway>>
        ELSE IF c.error # ""
        THEN /\ last' = [req EXCEPT !.resp = InternalError(c.error),
                                    !.dbError = c.error]
             /\ UNCHANGED <<audit, patients, nextPid, gateway>>
        ELSE /\ nextPid <= MaxPid
             /\ Len(audit) < MaxAudit
             /\ nextPid' = nextPid + 1
             /\ patients' = c.table
             /\ audit' = IF fault = "audit" THEN audit
                         ELSE log_action(bearer.sub, "CREATE", "patient", c.row.id)
             /\ last' = IF fault = "audit"
                        THEN [req EXCEPT !.resp = InternalError("OperationalError"),
                                         !.dbError = "OperationalError",
                                         !.pid = c.row.id, !.tok = bearer]
                        ELSE [req EXCEPT !.pid = c.row.id, !.tok = bearer]
             /\ UNCHANGED gateway

(* ------------------------------- export -------------------------------- *)
\* f"Patient-{patient.external_id or patient.id}"
folder_name(patient) ==
    IF patient.external_id # "" THEN <<"Patient-", patient.external_id>>
    ELSE <<"Patient-", patient.id>>

\* An instance object of a gateway listing: its ID and the SeriesNumber and
\* InstanceNumber of its MainDicomTags, each a sequence of characters, empty
\* when the key is absent.
InstanceObj(id, series, number) ==
    [ID |-> id, SeriesNumber |-> series, InstanceNumber |-> number]

\* What the gateway holds for the remote patient id a record can name: two
\* instances it can serve, one object without ID and one instance whose
\* InstanceNumber is not a number.
OrthancInstances(orthanc_patient_id) ==
    IF orthanc_patient_id = "o1"
    THEN << InstanceObj("i1", <<"1">>, <<"1">>), InstanceObj("", <<"1">>, <<"2">>),
            InstanceObj("i3", <<"1">>, <<"x">>), InstanceObj("i4", <<"2">>, <<>>) >>
    ELSE <<>>

\* stream_instance is a coroutine function too and is not awaited either.
stream_instance(instance_id) == Coroutine

Digits == <<"0", "1", "2", "3", "4", "5", "6", "7", "8", "9">>

\* int(v) of a tag value raises ValueError unless the value is a number.
IsNumber(v) ==
    /\ v # <<>>
    /\ \A k \in DOMAIN v : \E d \in DOMAIN Digits : Digits[d] = v[k]

DigitValue(c) == (CHOOSE k \in DOMAIN Digits : Digits[k] = c) - 1

\* int(v) of a tag value that is a number.
RECURSIVE int(_)
int(v) ==
    IF Len(v) = 1 THEN DigitValue(v[1])
    ELSE 10 * int(SubSeq(v, 1, Len(v) - 1)) + DigitValue(v[Len(v)])

\* f"{n:02d}"
pad2(n) == IF n < 10 THEN <<"0">> \o str_int(n) ELSE str_int(n)

\* series = tags.get("SeriesNumber") or 1
\* instance_number = tags.get("InstanceNumber") or idx
\* file_name = f"{series}-{int(instance_number):02d}.dcm"
file_name(tags, idx) ==
    LET series == IF tags.SeriesNumber # <<>> THEN tags.SeriesNumber ELSE str_int(1)
        instance_number == IF tags.InstanceNumber # <<>>
                           THEN int(tags.InstanceNumber)
                           ELSE idx
    IN  series \o <<"-">> \o pad2(instance_number) \o <<".dcm">>

\* The exception the body of the per-instance try raises before writestr, or
\* "" ("skip" is the continue of an object without ID).
instance_error(instance_obj, idx) ==
    IF instance_obj.ID = "" THEN "skip"
    ELSE IF instance_obj.InstanceNumber # <<>> /\ ~IsNumber(instance_obj.InstanceNumber)
    THEN "ValueError"
    ELSE ""

\* ZipFile.writestr takes len(data) before it writes anything: TypeError for
\* a coroutine object.
writestr_error(data) == IF data = Coroutine THEN "TypeError" ELSE ""

\* The .dcm entries of a patient: enumerate() over the coroutine object that
\* the un-awaited list_instances returns raises TypeError, which the outer
\* except swallows; over a list, an instance is written unless the body of
\* its try raises.
instance_entries(folder, instance_objs) ==
    IF instance_objs = Coroutine THEN <<>>
    ELSE LET written ==
                 SelectSeq([i \in DOMAIN instance_objs |-> i],
                           LAMBDA i :
                               /\ instance_error(instance_objs[i], i) = ""
                               /\ writestr_error(stream_instance(instance_objs[i].ID)) = "")
         IN  [k \in DOMAIN written |->
                  [folder |-> folder,
                   name |-> file_name(instance_objs[written[k]], written[k]),
                   kind |-> "dcm", orthancPatientId |-> "", dicomStudyUid |-> ""]]

\* The entry names the export loop computes for a listing: file_name for
\* every instance the loop does not skip before writestr, <<>> for the others.
FileNames(instance_objs) ==
    /\ last' = [op |-> "file_names", listing |-> instance_objs,
                names |-> [i \in DOMAIN instance_objs |->
                              IF instance_error(instance_objs[i], i) = ""
                              THEN file_name(instance_objs[i], i) ELSE <<>>]]
    /\ UNCHANGED <<audit, patients, nextPid, gateway>>

add_patient_to_zip_abort(zip_file, patient) ==
    LET folder == folder_name(patient)
        json == [folder |-> folder, name |-> folder, kind |-> "json",
                 orthancPatientId |-> patient.orthanc_patient_id,
                 dicomStudyUid |-> patient.dicom_study_uid]
    IN  IF patient.orthanc_patient_id # ""
           /\ list_instances(patient.orthanc_patient_id) = Coroutine
        THEN <<>>
        ELSE Append(zip_file, json)

\* _add_patient_to_zip: the archive after the patient's entries are written.
\* ZipFile.writestr appends; it does not replace an entry of the same name.
add_patient_to_zip(zip_file, patient) ==
    LET folder == folder_name(patient)
        json == [folder |-> folder, name |-> folder, kind |-> "json",
                 orthancPatientId |-> patient.orthanc_patient_id,
                 dicomStudyUid |-> patient.dicom_study_uid]
    IN  Append(zip_file, json)
        \o (IF patient.orthanc_patient_id # ""
            THEN instance_entries(folder, list_instances(patient.orthanc_patient_id))
            ELSE <<>>)

\* export_patient (GET /patients/{patient_id}/export).
ExportPatient(bearer, patient_id) ==
    LET req == [DataReq("export") EXCEPT !.ids = <<patient_id>>]
    IN  /\ UNCHANGED <<patients, nextPid, gateway>>
        /\ IF get_current_user_check(bearer) # Ok
           THEN /\ last' = [DataReq("export") EXCEPT
                                !.resp = get_current_user_check(bearer)]
                /\ UNCHANGED audit
           ELSE IF get_patient(patient_id) = NoPatient
           THEN /\ last' = [req EXCEPT !.resp = PatientNotFound]
                /\ UNCHANGED audit
           ELSE /\ Len(audit) < MaxAudit
                /\ audit' = log_action(bearer.sub, "EXPORT", "patient", patient_id)
                /\ last' = [req EXCEPT !.pid = patient_id, !.tok = bearer,
                                !.archive = add_patient_to_zip(<<>>, get_patient(patient_id))]

\* bulk_export_patients: the patients the requested ids resolve to, in the
\* order of the request, one per occurrence of an id.
RECURSIVE bulk_patients(_)
bulk_patients(ids) ==
    IF ids = <<>> THEN <<>>
    ELSE (IF get_patient(Head(ids)) # NoPatient THEN <<get_patient(Head(ids))>>
          ELSE <<>>) \o bulk_patients(Tail(ids))

RECURSIVE bulk_zip(_, _)
bulk_zip(zip_file, ps) ==
    IF ps = <<>> THEN zip_file
    ELSE bulk_zip(add_patient_to_zip(zip_file, Head(ps)), Tail(ps))

RECURSIVE bulk_audit(_, _, _)
bulk_audit(log, user_id, ids) ==
    IF ids = <<>> THEN log
    ELSE bulk_audit(Append(log, AuditRow(user_id, "EXPORT", "patient", Head(ids))),
                    user_id, Tail(ids))

bulk_export_check_strict(ids) ==
    IF Len(bulk_patients(ids)) < Len(ids) THEN PatientsNotFound ELSE Ok

bulk_export_check(ids) ==
    IF bulk_patients(ids) = <<>> THEN PatientsNotFound ELSE Ok

\* bulk_export_patients (POST /patients/export).
BulkExport(bearer, ids) ==
    LET req == [DataReq("bulk_export") EXCEPT !.ids = ids]
    IN  /\ UNCHANGED <<patients, nextPid, gateway>>
        /\ IF get_current_user_check(bearer) # Ok
           THEN /\ last' = [DataReq("bulk_export") EXCEPT
                                !.resp = get_current_user_check(bearer)]
                /\ UNCHANGED audit
           ELSE IF bulk_export_check(ids) # Ok
           THEN /\ last' = [req EXCEPT !.resp = bulk_export_check(ids)]
                /\ UNCHANGED audit
           ELSE /\ Len(audit) + Len(ids) <= MaxAudit
                /\ audit' = bulk_audit(audit, bearer.sub, ids)
                /\ last' = [req EXCEPT !.tok = bearer,
                                !.archive = bulk_zip(<<>>, bulk_patients(ids))]

(* ------------------------ concurrent requests ------------------------- *)
\* Several workers share the database: a create_patient or import_patient
\* request is handled one committed database statement at a time, and the
\* statements of different requests interleave.  A request in flight holds
\* what its handler holds in local variables.
InFlight(op, bearer, external_id, link, files, pc, resp) ==
    [op |-> op, tok |-> bearer, ext |-> external_id, link |-> link,
     files |-> files, pc |-> pc, pid |-> 0, resp |-> resp]

\* create_patient up to the lookup by external_id.
BeginCreatePatient(bearer, external_id, link) ==
    LET resp == IF get_current_user_check(bearer) # Ok
                THEN get_current_user_check(bearer)
                ELSE create_patient_check(external_id)
    IN  /\ Len(inflight) < MaxRequests
        /\ inflight' = Append(inflight,
                              InFlight("create_patient", bearer, external_id, link, <<>>,
                                       IF resp # Ok THEN "done" ELSE "insert", resp))
        /\ UNCHANGED <<audit, last, patients, nextPid, gateway>>

\* import_patient up to the parsing of the payload.
BeginImportPatient(bearer, payload, external_id, files) ==
    LET resp == IF get_current_user_check(bearer) # Ok
                THEN get_current_user_check(bearer)
                ELSE IF payload = "bad_json" THEN InvalidJson
                ELSE Ok
    IN  /\ Len(inflight) < MaxRequests
        /\ inflight' = Append(inflight,
                              InFlight("import", bearer, external_id, "", files,
                                       IF resp # Ok THEN "done" ELSE "insert", resp))
        /\ UNCHANGED <<audit, last, patients, nextPid, gateway>>

\* PatientService.create_patient of request r: db.add and db.commit.  The
\* IntegrityError of the commit is caught by neither handler (import_patient
\* calls it before its try block).
InsertPatient(r) ==
    LET c == create_patient(inflight[r].ext, inflight[r].link)
    IN  /\ inflight[r].pc = "insert"
        /\ IF c.error # ""
           THEN /\ inflight' = [inflight EXCEPT ![r].pc = "done",
                                                ![r].resp = InternalError(c.error)]
                /\ UNCHANGED <<patients, nextPid>>
           ELSE /\ nextPid <= MaxPid
                /\ nextPid' = nextPid + 1
                /\ patients' = c.table
                /\ inflight' = [inflight EXCEPT ![r].pc = "inserted",
                                                ![r].pid = c.row.id]
        /\ UNCHANGED <<audit, last, gateway>>

\* The rest of the handler of request r: create_patient writes its audit row;
\* import_patient runs its try block, whose except branch deletes the row
\* with the id the request inserted.
FinishPatient(r) ==
    LET q == inflight[r]
    IN  /\ q.pc = "inserted"
        /\ Len(audit) < MaxAudit
        /\ IF q.op = "import" /\ import_exception(q.files) # ""
           THEN /\ patients' = delete_patient(patients, q.pid)
                /\ audit' = audit
                /\ inflight' = [inflight EXCEPT ![r].pc = "done",
                                    ![r].resp = ImportError(import_exception(q.files))]
           ELSE /\ patients' = patients
                /\ audit' = log_action(q.tok.sub,
                                       IF q.op = "import" THEN "IMPORT" ELSE "CREATE",
                                       "patient", q.pid)
                /\ inflight' = [inflight EXCEPT ![r].pc = "done"]
        /\ gateway' = gateway \o gateway_requests(q.files)
        /\ UNCHANGED <<last, nextPid>>

\* list_patients (GET /patients): a read behind get_current_user alone.
ListPatients(bearer) ==
    /\ last' = IF get_current_user_check(bearer) # Ok
               THEN [DataReq("list_patients") EXCEPT
                         !.resp = get_current_user_check(bearer)]
               ELSE [DataReq("list_patients") EXCEPT !.tok = bearer]
    /\ UNCHANGED <<audit, patients, nextPid, gateway>>

(* ------------------------------ pruning -------------------------------- *)
\* cleanup_expired_tokens: the ledger without the rows whose expires_at is
\* before utcnow().
cleanup_expired_tokens_inclusive ==
    {r \in revoked : ~(r.expires_at <= now)}

cleanup_expired_tokens ==
    {r \in revoked : ~(r.expires_at < now)}

Cleanup ==
    /\ Len(audit) < MaxAudit
    /\ revoked' = cleanup_expired_tokens
    /\ last' = Req("cleanup", "", "")
    /\ UNCHANGED <<now, tz, nextJti, users, issued, sessions, audit, loggedOut,
                   partial, accessOf>>
    /\ UNCHANGED dataVars

(* ------------------------------- clock --------------------------------- *)
Tick ==
    /\ now < MaxTime
    /\ now' = now + 1
    /\ last' = Req("tick", "", "")
    /\ UNCHANGED <<tz, nextJti, users, issued, revoked, sessions, audit, loggedOut,
                   partial, accessOf>>
    /\ UNCHANGED dataVars

(* ---------------------------- specifications --------------------------- *)
\* What a client can put in the refresh_token cookie or the bearer header.
Cookies == issued \cup {NoToken, Garbage}

\* The refresh_token cookie of a logout: a refresh token, nothing, or garbage.
RefreshCookies == {c \in Cookies : c.type # "access"}

LoginStep ==
    /\ \E e \in Emails, p \in Passwords : Login(e, p, "")
    /\ UNCHANGED dataVars

RefreshStep ==
    /\ \E t \in Cookies : Refresh(t, GoodCsrf[1], GoodCsrf[2])
    /\ UNCHANGED dataVars

LogoutStep ==
    /\ \E t \in RefreshCookies : Logout(t, GoodCsrf[1], GoodCsrf[2], "")
    /\ UNCHANGED dataVars

\* Requests whose CSRF cookie and header are missing or differ.
RefreshBadCsrfStep ==
    /\ \E t \in Cookies, cp \in BadCsrf : Refresh(t, cp[1], cp[2])
    /\ UNCHANGED dataVars

LogoutBadCsrfStep ==
    /\ \E t \in RefreshCookies, cp \in BadCsrf : Logout(t, cp[1], cp[2], "")
    /\ UNCHANGED dataVars

\* A logout during which the database refuses one commit.
LogoutDbFaultStep ==
    /\ \E t \in RefreshCookies, f \in {"revoke", "close"} :
           Logout(t, GoodCsrf[1], GoodCsrf[2], f)
    /\ UNCHANGED dataVars

UpdateUserStep ==
    /\ \E b \in Cookies, u \in UpdateTargets, s \in Statuses : UpdateUser(b, u, s)
    /\ UNCHANGED dataVars

DeleteUserStep ==
    /\ \E b \in Cookies, u \in DeleteTargets : DeleteUser(b, u)
    /\ UNCHANGED dataVars

\* The bearer token of a data-plane request: an access token, or none.
Bearers == {t \in Cookies : t.type \in {"access", "none"}}

DeleteGroupStep ==
    /\ \E b \in Bearers, g \in GroupTargets : DeleteGroup(b, g)
    /\ UNCHANGED <<now, tz, nextJti, users, issued, revoked, sessions, loggedOut,
                   partial, accessOf, patients, nextPid, gateway, inflight>>

\* The authentication tables and the clock, which the data plane leaves alone
\* (it writes the audit log and the record of the step).
authVars == <<now, tz, nextJti, users, issued, revoked, sessions, loggedOut,
              partial, accessOf, groups, inflight>>

ImportStep ==
    /\ \E b \in Bearers, pl \in {"ok", "bad_json"}, x \in ExternalIds, fs \in FileLists :
           ImportPatient(b, pl, x, "", fs)
    /\ UNCHANGED authVars

CreatePatientStep ==
    /\ \E b \in Bearers, x \in ExternalIds, l \in PayloadLinks :
           CreatePatient(b, x, l, "")
    /\ UNCHANGED authVars

ExportStep ==
    /\ \E b \in Bearers, i \in PatientIds : ExportPatient(b, i)
    /\ UNCHANGED authVars

BulkExportStep ==
    /\ \E b \in Bearers, ids \in BulkRequests : BulkExport(b, ids)
    /\ UNCHANGED authVars

Next == LoginStep \/ RefreshStep \/ LogoutStep \/ Tick

Spec == Init /\ [][Next]_vars

NextCsrf == LoginStep \/ RefreshStep \/ LogoutStep \/ RefreshBadCsrfStep
            \/ LogoutBadCsrfStep

SpecCsrf == Init /\ [][NextCsrf]_vars

NextFault == LoginStep \/ RefreshStep \/ LogoutStep \/ LogoutDbFaultStep \/ Tick

SpecFault == Init /\ [][NextFault]_vars

NextAdmin == LoginStep \/ RefreshStep \/ LogoutStep \/ UpdateUserStep \/ Tick

SpecAdmin == Init /\ [][NextAdmin]_vars

\* A deployment in which a second identity can log in: the admin has
\* activated the third account.
OwnerUsers == [InitUsers EXCEPT ![3].status = "active"]

InitOwner ==
    /\ now = 0
    /\ tz \in ServerUtcOffsets
    /\ nextJti = 1
    /\ users = OwnerUsers
    /\ issued = {}
    /\ revoked = {}
    /\ sessions = {}
    /\ audit = <<>>
    /\ last = Req("init", "", "")
    /\ loggedOut = {}
    /\ partial = {}
    /\ accessOf = {}
    /\ InitData

NextOwner == LoginStep \/ RefreshStep \/ UpdateUserStep \/ DeleteUserStep \/ Tick

SpecOwner == InitOwner /\ [][NextOwner]_vars

\* Administration of groups and of the users that reference them.
NextGroup == LoginStep \/ DeleteGroupStep \/ DeleteUserStep \/ Tick

SpecGroup == Init /\ [][NextGroup]_vars

\* Identities that log in and out and are then deleted.
NextCascade == LoginStep \/ LogoutStep \/ DeleteUserStep \/ Tick

SpecCascade == InitOwner /\ [][NextCascade]_vars

\* Requests during which the database refuses the commit of the audit entry.
LoginAuditFaultStep ==
    /\ \E e \in Emails, p \in Passwords : Login(e, p, "audit")
    /\ UNCHANGED dataVars

LogoutAuditFaultStep ==
    /\ \E t \in RefreshCookies : Logout(t, GoodCsrf[1], GoodCsrf[2], "audit")
    /\ UNCHANGED dataVars

CreatePatientAuditFaultStep ==
    /\ \E b \in Bearers, x \in ExternalIds : CreatePatient(b, x, "", "audit")
    /\ UNCHANGED authVars

NextAudit == LoginStep \/ LoginAuditFaultStep \/ LogoutAuditFaultStep
             \/ CreatePatientStep \/ CreatePatientAuditFaultStep

SpecAudit == Init /\ [][NextAudit]_vars

\* A deployment with an identity of each kind able to log in: one in the
\* administrators' group, one without a group, one in a group that has
\* can_view_images only.
GateUsers ==
    [InitUsers EXCEPT ![2].hashed_password = [scheme |-> "bcrypt", pw |-> "good"],
                      ![3].status = "active"]

\* The state after each of the three has logged in once.
GateTokens ==
    {create_token(u, access_token_ttl, "access", 2 * u - 1) : u \in DOMAIN GateUsers}
    \cup {create_token(u, refresh_token_ttl, "refresh", 2 * u) : u \in DOMAIN GateUsers}

InitGate ==
    /\ now = 0
    /\ tz \in ServerUtcOffsets
    /\ nextJti = 7
    /\ users = GateUsers
    /\ issued = GateTokens
    /\ revoked = {}
    /\ sessions = {SessionRow(2 * u, u) : u \in DOMAIN GateUsers}
    /\ audit = <<AuditRow(1, "LOGIN", "user", 1), AuditRow(2, "LOGIN", "user", 2),
                 AuditRow(3, "LOGIN", "user", 3)>>
    /\ last = [Req("login", "", "") EXCEPT
                   !.tok = create_token(3, refresh_token_ttl, "refresh", 6),
                   !.access = create_token(3, access_token_ttl, "access", 5)]
    /\ loggedOut = {}
    /\ partial = {}
    /\ accessOf = {<<2 * u, access_token_ttl>> : u \in DOMAIN GateUsers}
    /\ InitData

RequirePermissionStep ==
    /\ \E b \in Bearers, f \in Capabilities : RequirePermission(b, f)
    /\ UNCHANGED <<audit, patients, nextPid, gateway>>
    /\ UNCHANGED authVars

NextGate == RequirePermissionStep \/ CreatePatientStep \/ ExportStep
            \/ BulkExportStep

SpecGate == InitGate /\ [][NextGate]_vars

\* Servers in several time zones, with the ledger pruned at arbitrary times.
PruneUtcOffsets == {-1, 0, 1}

InitPrune ==
    /\ now = 0
    /\ tz \in PruneUtcOffsets
    /\ nextJti = 1
    /\ users = InitUsers
    /\ issued = {}
    /\ revoked = {}
    /\ sessions = {}
    /\ audit = <<>>
    /\ last = Req("init", "", "")
    /\ loggedOut = {}
    /\ partial = {}
    /\ accessOf = {}
    /\ InitData

NextPrune == LoginStep \/ RefreshStep \/ LogoutStep \/ Cleanup \/ Tick

SpecPrune == InitPrune /\ [][NextPrune]_vars

\* The state after the admin's first login: the data plane is explored for a
\* requester who holds that login's access token, or none.
InitLoggedIn ==
    /\ now = 0
    /\ tz \in ServerUtcOffsets
    /\ nextJti = 3
    /\ users = InitUsers
    /\ issued = {create_token(1, access_token_ttl, "access", 1),
                 create_token(1, refresh_token_ttl, "refresh", 2)}
    /\ revoked = {}
    /\ sessions = {SessionRow(2, 1)}
    /\ audit = <<AuditRow(1, "LOGIN", "user", 1)>>
    /\ last = [Req("login", "", "") EXCEPT
                   !.tok = create_token(1, refresh_token_ttl, "refresh", 2),
                   !.access = create_token(1, access_token_ttl, "access", 1)]
    /\ loggedOut = {}
    /\ partial = {}
    /\ accessOf = {<<2, access_token_ttl>>}
    /\ InitData

NextData == CreatePatientStep \/ ImportStep \/ ExportStep \/ BulkExportStep

SpecData == InitLoggedIn /\ [][NextData]_vars

\* A protected read called with anything a client holds as bearer token,
\* refresh tokens included, between logins and logouts.
ListPatientsStep ==
    /\ \E b \in Cookies : ListPatients(b)
    /\ UNCHANGED authVars

NextBearer == LoginStep \/ LogoutStep \/ ListPatientsStep \/ Tick

SpecBearer == Init /\ [][NextBearer]_vars

\* Concurrent create and import requests of the logged-in administrator.
RaceFileLists == {<<"valid">>, <<"not_dicom">>}

raceVars == <<now, tz, nextJti, users, issued, revoked, sessions, loggedOut,
              partial, accessOf, groups>>

BeginCreatePatientStep ==
    /\ \E b \in Bearers, x \in ExternalIds, l \in PayloadLinks :
           BeginCreatePatient(b, x, l)
    /\ UNCHANGED raceVars

BeginImportPatientStep ==
    /\ \E b \in Bearers, pl \in {"ok", "bad_json"}, x \in ExternalIds,
          fs \in RaceFileLists :
           BeginImportPatient(b, pl, x, fs)
    /\ UNCHANGED raceVars

InsertPatientStep ==
    /\ \E r \in DOMAIN inflight : InsertPatient(r)
    /\ UNCHANGED raceVars

FinishPatientStep ==
    /\ \E r \in DOMAIN inflight : FinishPatient(r)
    /\ UNCHANGED raceVars

NextRace ==
    BeginCreatePatientStep \/ BeginImportPatientStep \/ InsertPatientStep
        \/ FinishPatientStep

SpecRace == InitLoggedIn /\ [][NextRace]_vars

\* Listings of one remote patient: instances with distinct IDs (or none),
\* with and without SeriesNumber and InstanceNumber.
InstanceIds == <<"i1", "i2", "i3", "i4">>
SeriesTags == {<<>>, <<"1">>, <<"2">>}
NumberTags == {<<>>, <<"1">>, <<"2">>, <<"x">>}
Listings ==
    UNION {{[i \in 1..n |-> InstanceObj(IF f[i].hasId THEN InstanceIds[i] ELSE "",
                                          f[i].series, f[i].number)] :
               f \in [1..n -> [hasId : BOOLEAN, series : SeriesTags,
                              number : NumberTags]]} :
           n \in 1..MaxInstances}

InitNaming ==
    /\ now = 0
    /\ tz \in ServerUtcOffsets
    /\ nextJti = 1
    /\ users = InitUsers
    /\ issued = {}
    /\ revoked = {}
    /\ sessions = {}
    /\ audit = <<>>
    /\ last \in [op : {"listing"}, listing : Listings]
    /\ loggedOut = {}
    /\ partial = {}
    /\ accessOf = {}
    /\ InitData

FileNamesStep ==
    /\ last.op = "listing"
    /\ FileNames(last.listing)
    /\ UNCHANGED authVars

NextNaming == FileNamesStep

SpecNaming == InitNaming /\ [][NextNaming]_vars

\* Patient records whose external ids contain digits and underscores, and
\* internal ids of one and two digits.
ExtAlphabet == {"1", "_", "a"}
ExtStrings == UNION {[1..n -> ExtAlphabet] : n \in 1..MaxExtLen}
InternalIds == {1, 2, 11, 12}
SyntheticInputs == [id : InternalIds, ext : ExtStrings]

\* Two patient records of the database, their identifiers not yet computed.
InitSynthetic ==
    /\ now = 0
    /\ tz \in ServerUtcOffsets
    /\ nextJti = 1
    /\ users = InitUsers
    /\ issued = {}
    /\ revoked = {}
    /\ sessions = {}
    /\ audit = <<>>
    /\ last \in [op : {"records"}, a : SyntheticInputs, b : SyntheticInputs]
    /\ loggedOut = {}
    /\ partial = {}
    /\ accessOf = {}
    /\ InitData

UniquePatientIdsStep ==
    /\ last.op = "records"
    /\ UniquePatientIds(last.a, last.b)
    /\ UNCHANGED authVars

NextSynthetic == UniquePatientIdsStep

SpecSynthetic == InitSynthetic /\ [][NextSynthetic]_vars

(* ------------------------------ properties ----------------------------- *)
BothCookies == {"refresh_token", "csrf_token"}

InLedger(jti) == \E r \in revoked : r.jti = jti

Expired(token) == token.exp < now

ActiveOwner(token) ==
    token.sub \in DOMAIN users /\ users[token.sub].status = "active"

BadCsrfPair(c, h) == c = "" \/ h = "" \/ c # h

C2_ValidTokenRefreshes ==
    /\ \A t \in issued :
           (t.type = "refresh" /\ ~Expired(t) /\ ~InLedger(t.jti)) =>
               refresh_check(t) = Ok
    /\ (last.op = "refresh" /\ last.resp = Ok) =>
           \A p \in accessOf : p[1] = last.tok.jti => p[2] <= last.access.exp

\* C2, amended: a refresh presenting a refresh token before its expiry and
\* before its revocation succeeds while the identity named by the token still
\* exists and is active; the access token it returns expires no earlier than
\* any access token issued before for the same refresh token.
C2_ValidTokenOfActiveOwnerRefreshes ==
    /\ \A t \in issued :
           (t.type = "refresh" /\ ~Expired(t) /\ ~InLedger(t.jti) /\ ActiveOwner(t)) =>
               refresh_check(t) = Ok
    /\ (last.op = "refresh" /\ last.resp = Ok) =>
           \A p \in accessOf : p[1] = last.tok.jti => p[2] <= last.access.exp

C2_Witness ==
    /\ last.op = "refresh" /\ last.resp = Ok
    /\ \E p \in accessOf : p[1] = last.tok.jti /\ p[2] < last.access.exp

\* C3: login fails in the same way (AuthenticationError, code
\* INVALID_CREDENTIALS, one message) when no identity has the email, when the
\* stored hash is of an unsupported scheme, when the password does not match,
\* and when the identity is not active; a failing login creates no session,
\* no audit entry and no token.
C3_LoginFailsUniformly ==
    [][/\ \A e \in Emails, p \in Passwords :
              authenticate_case(e, p) # "ok" => login_check(e, p) = InvalidCredentials
       /\ \A c \in {"no_identity", "unsupported_hash", "mismatch", "inactive"} :
              \E e \in Emails, p \in Passwords : authenticate_case(e, p) = c
       /\ (last'.op = "login" /\ last'.resp # Ok) =>
              /\ last'.resp = InvalidCredentials
              /\ sessions' = sessions /\ audit' = audit /\ issued' = issued]_vars

C3_Witness ==
    /\ last.op = "login" /\ last.resp = InvalidCredentials
    /\ authenticate_case("off@x.test", "good") = "inactive"
    /\ sessions # {}

\* C4 as stated: a logout or refresh whose CSRF cookie or header is missing,
\* or whose two values differ, is rejected with a forbidden error before any
\* state change: it revokes no token, closes or touches no session and issues
\* no access token.
C4_BadCsrfIsForbidden ==
    (last.op \in {"logout", "refresh"} /\ BadCsrfPair(last.csrfCookie, last.csrfHeader)) =>
        /\ last.resp.status = 403
        /\ last.tok = NoToken /\ last.access = NoToken

\* C5 as stated: revoke_token called again for a JTI already in the ledger
\* raises no error, and the ledger holds exactly one entry for the JTI.
\* Logout is the caller: a logout that reached revoke_token saw no error.
C5_RevokeTwiceRaisesNothing ==
    (last.op = "logout" /\ last.tok # NoToken) =>
        /\ last.dbError = ""
        /\ Cardinality({r \in revoked : r.jti = last.tok.jti}) = 1
        /\ is_token_revoked(last.tok.jti)

\* C6: when one of logout's two writes (the revocation, the closing of the
\* session) was committed and the other failed, the refresh token is not
\* usable afterwards: every refresh presenting it is refused.
C6_HalfDoneLogoutDisablesToken ==
    /\ \A t \in issued : t.jti \in partial => refresh_check(t) # Ok
    /\ (last.op = "refresh" /\ last.resp = Ok) => last.tok.jti \notin partial

C6_Witness ==
    /\ last.op = "refresh" /\ last.resp = Revoked
    /\ \E t \in issued : t.jti \in partial /\ ~Expired(t)
    /\ \E s \in sessions : s.id \in partial /\ s.is_active

\* C7 as stated: at no time is a JTI both in the revocation ledger and the
\* key of an active session, also after a logout one of whose database steps
\* failed.
C7_NoRevokedActiveSession ==
    \A s \in sessions : s.is_active => ~InLedger(s.id)

\* C8: logout always succeeds, whether the refresh cookie is absent,
\* undecodable, expired, already revoked or valid, and whether or not the
\* database accepts its writes: it answers success, clears the refresh_token
\* and csrf_token cookies, and surfaces no error.
C8_LogoutAlwaysSucceeds ==
    last.op = "logout" => (last.resp = Ok /\ last.cleared = BothCookies)

C8_Witness ==
    /\ last.op = "logout" /\ last.resp = Ok
    /\ last.dbError = "IntegrityError"

\* C9: logout acts on the refresh token presented and on nothing else: the
\* other refresh tokens stay as they were in the ledger, their sessions stay
\* as they were, and a refresh that succeeded with them before still does.
C9_LogoutIsPerToken ==
    [][(last'.op = "logout" /\ last'.tok # NoToken) =>
           \A t \in issued :
               (t.type = "refresh" /\ t.jti # last'.tok.jti) =>
                   /\ InLedger(t.jti)' = InLedger(t.jti)
                   /\ \A s \in sessions : s.id = t.jti => s \in sessions'
                   /\ refresh_check(t) = Ok => refresh_check(t)' = Ok]_vars

C9_Witness ==
    /\ last.op = "logout" /\ last.tok # NoToken /\ InLedger(last.tok.jti)
    /\ \E t \in issued :
           /\ t.type = "refresh" /\ t.jti # last.tok.jti /\ t.sub = last.tok.sub
           /\ ~InLedger(t.jti)
           /\ \E s \in sessions : s.id = t.jti /\ s.is_active
           /\ refresh_check(t) = Ok

\* C10: a session that logout marked inactive is never active again.
C10_ClosedSessionStaysClosed ==
    [][\A s \in sessions :
           ~s.is_active => \A s2 \in sessions' : s2.id = s.id => ~s2.is_active]_vars

C10_Witness ==
    /\ last.op = "login" /\ last.resp = Ok
    /\ \E s \in sessions : ~s.is_active /\ s.user_id = last.tok.sub

\* C11: every successful login creates exactly one session entry, keyed by
\* the JTI of the refresh token it issued, owned by the authenticated identity
\* and marked active; no two session entries share a key, and every session
\* key is the JTI of a refresh token issued by a successful login.
C11_OneSessionPerLogin ==
    /\ \A t \in issued :
           t.type = "refresh" =>
               /\ Cardinality({s \in sessions : s.id = t.jti}) = 1
               /\ \A s \in sessions : s.id = t.jti => s.user_id = t.sub
    /\ \A s \in sessions :
           \E t \in issued : t.type = "refresh" /\ t.jti = s.id
    /\ Cardinality(sessions) = Cardinality({t \in issued : t.type = "refresh"})
    /\ Cardinality(sessions) =
           Cardinality({i \in DOMAIN audit : audit[i].action = "LOGIN"})
    /\ (last.op = "login" /\ last.resp = Ok) =>
           \E s \in sessions :
               s.id = last.tok.jti /\ s.user_id = last.tok.sub /\ s.is_active

C11_Witness ==
    /\ last.op = "login" /\ last.resp = Ok
    /\ Cardinality(sessions) = 2
    /\ \E s \in sessions : s.id # last.tok.jti /\ s.user_id = last.tok.sub

\* C12: refresh rejects every validly signed, unexpired token whose kind is
\* not refresh (an access token placed in the refresh cookie): it fails with
\* the AuthenticationError INVALID_TYPE and issues no access token.
C12_RefreshRejectsOtherKinds ==
    /\ \A t \in issued :
           (t.type # "refresh" /\ ~Expired(t)) =>
               /\ refresh_check(t) = InvalidType
               /\ refresh_check(t).kind = "AuthenticationError"
    /\ (last.op = "refresh" /\ last.resp = Ok) => last.tok.type = "refresh"
    /\ \A t \in issued :
           t.type = "access" =>
               \E p \in accessOf :
                   /\ p[2] = t.exp
                   /\ \E r \in issued : r.type = "refresh" /\ r.jti = p[1]

C12_Witness ==
    /\ last.op = "refresh" /\ last.resp = InvalidType /\ last.access = NoToken
    /\ \E t \in issued : t.type = "access" /\ ~Expired(t)

\* C13: refresh with a valid, unrevoked refresh token is rejected with the
\* AuthenticationError INACTIVE, and issues no access token, whenever the
\* identity named by the token no longer exists or is not active at the time
\* of the refresh.
C13_RefreshNeedsActiveOwner ==
    /\ \A t \in issued :
           (t.type = "refresh" /\ ~Expired(t) /\ ~InLedger(t.jti) /\ ~ActiveOwner(t)) =>
               /\ refresh_check(t) = Inactive
               /\ refresh_check(t).kind = "AuthenticationError"
    /\ (last.op = "refresh" /\ last.resp = Ok) => ActiveOwner(last.tok)
    /\ (last.op = "refresh" /\ last.resp # Ok) => last.access = NoToken

C13_Witness ==
    /\ last.op = "refresh" /\ last.resp = Inactive
    /\ \E t \in issued :
           t.type = "refresh" /\ ~Expired(t) /\ t.sub \notin DOMAIN users
    /\ \A t \in issued :
           (t.type = "refresh" /\ t.sub \in DOMAIN users) => users[t.sub].status = "active"

\* C14: pruning removes exactly the revocation entries whose expires_at is
\* strictly before the current time and leaves every other entry untouched,
\* for any mix of past and future expiries in the ledger.
C14_PruneRemovesExactlyExpired ==
    [][last'.op = "cleanup" =>
           /\ revoked' \subseteq revoked
           /\ \A r \in revoked : (r \in revoked') <=> ~(r.expires_at < now')]_vars

C14_Witness ==
    /\ last.op = "cleanup"
    /\ \E r \in revoked : r.expires_at = now
    /\ \E s \in sessions : ~s.is_active /\ ~InLedger(s.id)

Folders(archive) == {archive[k].folder : k \in DOMAIN archive}

EntriesOf(archive, folder, kind) ==
    {k \in DOMAIN archive : archive[k].folder = folder /\ archive[k].kind = kind}

Resolving(ids) == {ids[k] : k \in DOMAIN ids} \cap {p.id : p \in patients}

\* C15: when an import fails after it created a new patient record, the
\* record is deleted before the error is returned: after a failed import no
\* patient row with the imported external id exists that did not exist before.
C15_FailedImportLeavesNoRow ==
    (last.op = "import" /\ last.resp # Ok /\ ~last.existed) =>
        /\ ~\E p \in patients : p.external_id = last.ext
        /\ last.pid # 0 => get_patient(last.pid) = NoPatient

C15_Witness ==
    /\ last.op = "import" /\ last.resp.status = 500 /\ ~last.existed
    /\ last.pid # 0 /\ last.files = <<"valid", "not_dicom">>
    /\ patients # {}

\* C16 as stated: import creates or updates by external id: a payload whose
\* external_id belongs to a patient updates that record and never deletes it,
\* a payload with a fresh external_id creates a record, and no import fails
\* merely because the external_id exists.
C16_ImportCreatesOrUpdates ==
    /\ (last.op = "import" /\ last.existed) =>
           /\ last.dbError # "IntegrityError"
           /\ \E p \in patients : p.external_id = last.ext
    /\ (last.op = "import" /\ ~last.existed /\ last.resp = Ok) =>
           \E p \in patients : p.external_id = last.ext /\ p.id = last.pid

\* C17 as stated: importing a patient record with one valid DICOM file
\* succeeds, the gateway receives the file and the record carries the
\* ParentPatient and ParentStudy it reported; exporting the patient then gives
\* an archive with exactly one .json and one .dcm per uploaded file under a
\* single Patient-<id> folder, the .json carrying the record's linkage.
C17_ImportExportRoundTrip ==
    /\ (last.op = "import" /\ last.files = <<"valid">> /\ ~last.existed
        /\ last.ext # "") =>
           /\ last.resp = Ok
           /\ Len(gateway) >= 1
           /\ get_patient(last.pid).orthanc_patient_id # ""
    /\ (last.op = "export" /\ last.resp = Ok /\ last.pid # 0) =>
           /\ Cardinality(Folders(last.archive)) = 1
           /\ \A f \in Folders(last.archive) :
                  /\ Cardinality(EntriesOf(last.archive, f, "json")) = 1
                  /\ Cardinality(EntriesOf(last.archive, f, "dcm")) = Len(gateway)
                  /\ \A k \in EntriesOf(last.archive, f, "json") :
                         /\ last.archive[k].orthancPatientId
                                = get_patient(last.pid).orthanc_patient_id
                         /\ last.archive[k].dicomStudyUid
                                = get_patient(last.pid).dicom_study_uid

\* C18: a bulk export produces one patient folder for each requested id that
\* resolves to a patient and nothing for the others, without error when at
\* least one id resolves; it fails with NotFoundError PATIENTS_NOT_FOUND
\* exactly when none resolves.
C18_BulkExportSkipsUnknownIds ==
    (last.op = "bulk_export" /\ last.ids # <<>>) =>
        IF Resolving(last.ids) = {}
        THEN last.resp = PatientsNotFound /\ last.archive = <<>>
        ELSE /\ last.resp = Ok
             /\ Folders(last.archive)
                    = {folder_name(get_patient(i)) : i \in Resolving(last.ids)}
             /\ Cardinality(Folders(last.archive)) = Cardinality(Resolving(last.ids))

C18_Witness ==
    /\ last.op = "bulk_export" /\ last.ids = <<2, 9, 1>> /\ last.resp = Ok
    /\ Cardinality(Folders(last.archive)) = 2

\* C19 as stated: in the archive of every export, also of a bulk export that
\* names a patient more than once, every folder holds exactly one entry
\* <folder>.json and all its other entries are .dcm files.
C19_OneJsonPerFolder ==
    (last.op \in {"export", "bulk_export"} /\ last.resp = Ok) =>
        \A f \in Folders(last.archive) :
            /\ Cardinality(EntriesOf(last.archive, f, "json")) = 1
            /\ \A k \in EntriesOf(last.archive, f, "json") : last.archive[k].name = f
            /\ \A k \in DOMAIN last.archive :
                   last.archive[k].folder = f => last.archive[k].kind \in {"json", "dcm"}

\* C20: deleting a group that some identity references fails with
\* ValidationError GROUP_HAS_USERS and leaves the groups and every identity
\* unchanged; deleting a group no identity references succeeds and removes
\* only that group; hence, whatever groups are deleted, every identity that
\* references a group references one that exists.
C20_GroupDeletionKeepsReferences ==
    /\ [](\A u \in DOMAIN users :
              users[u].group_id # 0 => users[u].group_id \in groups)
    /\ [][(last'.op = "delete_group" /\ last'.tok # NoToken
           /\ last'.gid \in groups) =>
              /\ users' = users
              /\ IF \E u \in DOMAIN users : users[u].group_id = last'.gid
                 THEN last'.resp = GroupHasUsers /\ groups' = groups
                 ELSE last'.resp = Ok /\ groups' = groups \ {last'.gid}]_vars

C20_Witness ==
    /\ last.op = "delete_group" /\ last.resp = GroupHasUsers /\ last.gid = 2
    /\ 3 \notin groups /\ 2 \in groups
    /\ users[3].group_id = 2

\* C21: creating a patient record whose external_id belongs to an existing
\* patient fails with ValidationError DUPLICATE_ID and leaves the patient
\* table unchanged; creating one with a fresh external_id succeeds, adds
\* exactly that record, and the record is retrievable by its external_id.
C21_CreateRejectsDuplicateId ==
    [][(last'.op = "create_patient" /\ last'.resp \notin Unauthorized) =>
          IF \E p \in patients : p.external_id = last'.ext
          THEN last'.resp = DuplicateId /\ patients' = patients
          ELSE /\ last'.resp = Ok
               /\ \E p \in patients' :
                      /\ p.external_id = last'.ext /\ p.id = last'.pid
                      /\ patients' = patients \cup {p}
                      /\ \A q \in patients' : q.external_id = last'.ext => q = p]_vars

C21_Witness ==
    /\ last.op = "create_patient" /\ last.resp = DuplicateId /\ last.ext = "A"
    /\ \E p \in patients : p.external_id = "A"
    /\ \E p \in patients : p.external_id = "B"

IsPrefix(s, t) == Len(s) <= Len(t) /\ SubSeq(t, 1, Len(s)) = s

\* C22 as stated: the audit log is append-only: no operation updates or
\* removes an audit entry, so every step leaves the entries it found in place
\* and at most adds entries after them.
C22_AuditAppendOnly == [][IsPrefix(audit, audit')]_vars

\* C22 amended: the audit log is append-only except for the deletion of an
\* identity: every step other than delete_user leaves the entries it found in
\* place and at most adds entries after them, and delete_user removes exactly
\* the entries whose actor is the identity it names, keeping all others in
\* order.
C22_AuditAppendOnlyExceptDeletedActor ==
    [][\/ IsPrefix(audit, audit')
       \/ /\ last'.op = "delete_user"
          /\ \E u \in DeleteTargets :
                 IsPrefix(SelectSeq(audit, LAMBDA a : a.user_id # u), audit')]_vars

C22_Witness ==
    /\ last.op = "delete_user" /\ last.resp = Ok
    /\ 3 \notin DOMAIN users
    /\ \E t \in issued : t.sub = 3
    /\ ~\E i \in DOMAIN audit : audit[i].user_id = 3
    /\ Len(audit) >= 2

\* C23: a successful deletion of an identity leaves no session entry and no
\* revoked-token entry owned by that identity and no audit entry whose actor
\* it is; a delete request naming no identity fails with NotFoundError
\* USER_NOT_FOUND and removes nothing.
C23_DeleteUserCascades ==
    [][(last'.op = "delete_user" /\ last'.resp \in {Ok, UserNotFound}) =>
          IF last'.uid \in DOMAIN users
          THEN /\ last'.resp = Ok
               /\ last'.uid \notin DOMAIN users'
               /\ ~\E x \in sessions' : x.user_id = last'.uid
               /\ ~\E r \in revoked' : r.user_id = last'.uid
               /\ ~\E i \in DOMAIN audit' : audit'[i].user_id = last'.uid
          ELSE /\ last'.resp = UserNotFound
               /\ last'.resp.kind = "NotFoundError"
               /\ UNCHANGED <<users, sessions, revoked, audit>>]_vars

C23_Witness ==
    /\ last.op = "delete_user" /\ last.resp = Ok /\ last.uid = 3
    /\ \E t \in issued : t.sub = 3 /\ t.type = "refresh" /\ t.jti \in loggedOut
    /\ \E r \in revoked : r.user_id = 1
    /\ ~\E r \in revoked : r.user_id = 3

\* C24 as stated: a failure while writing the audit entry never changes the
\* outcome of the primary operation: the login, logout or create whose audit
\* write failed still returns its normal result, and its effect (session
\* opened, token revoked, patient created) is in place.
C24_AuditFailureKeepsOutcome ==
    (last.op \in {"login", "logout", "create_patient"}
     /\ last.dbError = "OperationalError") =>
        /\ last.resp = Ok
        /\ last.op = "login" => last.access # NoToken /\ has_session(last.tok.jti)
        /\ last.op = "logout" => InLedger(last.tok.jti)
        /\ last.op = "create_patient" => get_patient(last.pid) # NoPatient

\* The capability a protected patient operation corresponds to.
capability_of(op) ==
    IF op \in {"export", "bulk_export"} THEN "can_export_data" ELSE "can_edit_patients"

\* C25 as stated: an operation that edits patients or exports data is carried
\* out only for a requester who presents a valid bearer token and whose group
\* has the corresponding capability flag set.
C25_OperationsNeedCapability ==
    (last.op \in {"create_patient", "import", "export", "bulk_export"}
     /\ last.resp = Ok) =>
        /\ decode_ok(last.tok)
        /\ require_permission(capability_of(last.op), last.tok) = Ok

\* C26 as stated: the capability check denies every capability to an identity
\* without a group, allows an identity with a group a capability exactly when
\* the group's flag of that name is true, and a denial is an
\* AuthorizationError (403), distinct from AuthenticationError.
C26_CapabilityCheck ==
    (last.op = "require_permission" /\ last.resp \notin Unauthorized) =>
        LET user == get_user(last.tok.sub) IN
        /\ user.group_id = 0 => last.resp # Ok
        /\ user.group_id # 0 =>
               (last.resp = Ok <=> last.flag \in group_flags[user.group_id])
        /\ last.resp # Ok =>
               /\ last.resp.status = 403
               /\ last.resp.kind = "AuthorizationError"

\* The patient has had a successful import: its IMPORT audit entry exists.
imported(patient) ==
    \E i \in DOMAIN audit :
        /\ audit[i].action = "IMPORT" /\ audit[i].resource_type = "patient"
        /\ audit[i].resource_id = patient.id

\* C27 as stated: the remote linkage fields of a patient record are written
\* only by the import pipeline: they are empty on every record that has not
\* had a successful import, whatever the payload of the request that created
\* it.
C27_LinkageOnlyFromImport ==
    \A p \in patients :
        ~imported(p) => p.orthanc_patient_id = "" /\ p.dicom_study_uid = ""

\* C28 as stated: when a file of an import is empty, too large, not DICOM or
\* lacks PatientID, the import fails with a ValidationError (400) that names
\* that cause, surfaced to the caller unchanged, and no file after the
\* invalid one is uploaded to the gateway.
C28_InvalidFileIsValidationError ==
    (last.op = "import" /\ ~last.existed /\ FirstInvalid(last.files) # 0) =>
        /\ last.resp.status = 400
        /\ last.resp.kind = "ValidationError"
        /\ last.resp.detail = validate_dicom_file(last.files[FirstInvalid(last.files)])
        /\ Len(uploaded_files(last.files)) = FirstInvalid(last.files) - 1
        /\ Len(gateway) <= FirstInvalid(last.files) - 1

C30_LinkageFromFirstUpload ==
    (last.op = "import" /\ ~last.existed /\ last.files # <<>>
     /\ FirstInvalid(last.files) = 0) =>
        /\ Len(gateway) >= Len(last.files)
        /\ \A i \in DOMAIN uploaded_files(last.files) :
               uploaded_files(last.files)[i] # Coroutine
        /\ \E p \in patients :
               /\ p.id = last.pid /\ p.external_id = last.ext
               /\ p.orthanc_patient_id # "" /\ p.dicom_study_uid # ""

\* C31 as stated: when the rewrite of a file's tags fails, the import
\* forwards the file's original bytes to the gateway and goes on; a rewrite
\* failure alone neither aborts the import nor rolls the patient record back.
C31_RewriteFailureFallsBack ==
    (last.op = "import" /\ ~last.existed /\ FirstInvalid(last.files) = 0
     /\ \E i \in DOMAIN last.files : last.files[i] = "rewrite_fails") =>
        /\ last.resp = Ok
        /\ get_patient(last.pid) # NoPatient
        /\ \A i \in DOMAIN last.files :
               last.files[i] = "rewrite_fails" =>
                   \E k \in DOMAIN gateway :
                       gateway[k] = [file |-> i, bytes |-> <<"original">>]

C32_SyntheticIdCollisionProof ==
    last.op = "unique_patient_id" =>
        /\ last.a.id # last.b.id => last.ida # last.idb
        /\ last.a # last.b => last.ida # last.idb
        /\ last.a = last.b => last.ida = last.idb
        /\ last.ida = unique_patient_id(last.a.id, last.a.ext)
        /\ SubSeq(last.ida, 1, 4) = <<"A", "P", "P", "_">>

C32_Witness ==
    /\ last.op = "unique_patient_id"
    /\ last.a = [id |-> 1, ext |-> <<"1", "_", "a">>]
    /\ last.b = [id |-> 11, ext |-> <<"_", "a">>]
    /\ last.ida = <<"A", "P", "P", "_", "1", "_", "1", "_", "a">>
    /\ last.idb = <<"A", "P", "P", "_", "1", "1", "_", "_", "a">>

\* C33: when a patient has no remote linkage, or the listing of the
\* patient's instances fails, the archive is still built: the patient's
\* folder holds its .json document and no .dcm file, and a bulk export still
\* adds the folders of the other patients it names.
C33_ListingFailureLeavesJsonOnly ==
    (last.op \in {"export", "bulk_export"} /\ last.resp = Ok) =>
        /\ Folders(last.archive) =
               {folder_name(p) : p \in {q \in patients : q.id \in Resolving(last.ids)}}
        /\ \A p \in patients :
               (/\ p.id \in Resolving(last.ids)
                /\ \/ p.orthanc_patient_id = ""
                   \/ list_instances(p.orthanc_patient_id) = Coroutine) =>
                   /\ EntriesOf(last.archive, folder_name(p), "json") # {}
                   /\ EntriesOf(last.archive, folder_name(p), "dcm") = {}

C33_Witness ==
    /\ last.op = "bulk_export" /\ last.resp = Ok /\ last.ids = <<1, 2>>
    /\ \E p \in patients : p.id = 1 /\ p.orthanc_patient_id = "o1"
    /\ \E p \in patients : p.id = 2 /\ p.orthanc_patient_id = ""
    /\ Len(last.archive) = 2
    /\ \A k \in DOMAIN last.archive : last.archive[k].kind = "json"

\* C34 as stated: a failure on one instance of an export (no ID, fetch
\* failure, InstanceNumber that is not a number) skips that instance only:
\* every other instance of the gateway's listing is written to the patient's
\* folder as <series>-<instance number on two digits>.dcm.
C34_OtherInstancesWritten ==
    (last.op \in {"export", "bulk_export"} /\ last.resp = Ok) =>
        \A p \in patients :
            (p.id \in Resolving(last.ids) /\ p.orthanc_patient_id # "") =>
                LET listing == OrthancInstances(p.orthanc_patient_id)
                IN  \A i \in DOMAIN listing :
                        instance_error(listing[i], i) = "" =>
                            \E k \in EntriesOf(last.archive, folder_name(p), "dcm") :
                                last.archive[k].name = file_name(listing[i], i)

\* C35 as stated: with the ledger pruned at any time, a refresh token that
\* logout revoked is never accepted by refresh again: as long as the token is
\* within its validity its revocation entry is in the ledger.
C35_PruningKeepsRevocation ==
    /\ \A t \in issued :
           (t.type = "refresh" /\ t.jti \in loggedOut /\ ~Expired(t)) =>
               /\ InLedger(t.jti)
               /\ refresh_check(t) # Ok
    /\ (last.op = "refresh" /\ last.resp = Ok) => last.tok.jti \notin loggedOut

\* C36 as stated: get_current_user resolves an identity only from a token of
\* kind access: a refresh token presented as bearer token is rejected, so no
\* refresh token, revoked by logout or not, authenticates a protected
\* operation.
C36_BearerMustBeAccessToken ==
    /\ \A t \in issued : t.type = "refresh" => get_current_user_check(t) # Ok
    /\ (last.op = "list_patients" /\ last.resp = Ok) =>
           /\ last.tok.type = "access"
           /\ last.tok.jti \notin loggedOut

\* A request in flight that found its external id taken, at the lookup or at
\* the commit of its insert.
LostRace(q) ==
    /\ q.pc = "done" /\ q.pid = 0
    /\ q.resp \in {DuplicateId, InternalError("IntegrityError")}

\* C38: however concurrent create and import requests with the same
\* external id interleave, no two patient rows ever hold the same external
\* id; a request that loses the race ends in an error and changes no row; and
\* a row is removed only by the import request that inserted it.
C38_RaceLeavesOneRow ==
    /\ [](\A p, q \in patients : p.external_id = q.external_id => p = q)
    /\ [](\A r \in DOMAIN inflight :
              (inflight[r].pc = "done" /\ inflight[r].pid = 0) =>
                  inflight[r].resp # Ok /\ inflight[r].resp.status >= 400)
    /\ [][\A r \in DOMAIN inflight' :
              (LostRace(inflight'[r]) /\ (r \notin DOMAIN inflight \/ ~LostRace(inflight[r])))
                  => patients' = patients]_vars
    /\ [][\A p \in patients \ patients' :
              \E r \in DOMAIN inflight :
                  /\ inflight[r].op = "import" /\ inflight[r].pid = p.id
                  /\ inflight[r].pc = "inserted" /\ inflight'[r].pc = "done"
                  /\ inflight'[r].resp.status = 500]_vars

C38_Witness ==
    \E r, w \in DOMAIN inflight :
        /\ r # w /\ inflight[r].ext = inflight[w].ext
        /\ inflight[r].op = "create_patient" /\ inflight[r].pc = "done"
        /\ inflight[r].resp = InternalError("IntegrityError")
        /\ inflight[w].op = "import" /\ inflight[w].pc = "inserted"
        /\ \E p \in patients : p.id = inflight[w].pid /\ p.external_id = inflight[w].ext

====
